---- MODULE Spec2Model ----
(***************************************************************************)
(* File reverser: chunked in-place UTF-8 line reversal, the SPSC lock-free *)
(* ring queue, and the reader / worker / writer pipeline.                  *)
(*                                                                         *)
(* Several specifications share this module:                                 *)
(*   Spec    the multi-threaded pipeline (main + three threads)            *)
(*   SpecQ   one SPSC_LFQ hammered by one producer and one consumer, at    *)
(*           the granularity of the individual atomic loads and stores     *)
(*   SpecST  the single-threaded driver loop around st::reverse_segment    *)
(*   SpecRR  one call of reverse_range                                     *)
(*   SpecMT  one call of mt::reverse_segment                               *)
(*   SpecRE  the pipeline when read can fail                               *)
(***************************************************************************)
EXTENDS Integers, Sequences, FiniteSets, TLC

(***************************************************************************)
(* Bounds of the model.  The program's sizes are scaled down: 8192-byte    *)
(* buffers, 64-byte cache lines, J = 4 jobs in flight (buffer_count = 9 =  *)
(* 2J + 1) and queues of 16 slots.  The derived quantities are computed as *)
(* the program computes them.                                              *)
(***************************************************************************)
buffer_size == 3

cacheline_stride == 1

NumJobs == 2

QueueBits == 2

MaxLen == 5

MaxPush == 8

STMaxLen == 4

STMaxBuf == 4

RRMaxLen == 5

REMaxLen == 2

MaxReadErr == 1

SizeBits == 5

(***************************************************************************)
(* Program constants.                                                      *)
(***************************************************************************)
LF == 10

CR == 13

Junk == 0

buffer_count == 2 * NumJobs + 1

\* a ring of two slots, which holds one item
queue_size_one_item == 2 ^ 1

queue_size == 2 ^ QueueBits

\* the byte at position i of the pipeline's input file: a line feed, or a
\* letter that differs from the letter at every other position; the second
\* byte may also be a continuation byte that no lead byte precedes
Cell(i) == IF i = 2 THEN {LF, 96 + i, 128} ELSE {LF, 96 + i}

(***************************************************************************)
(* Integer helpers.                                                        *)
(***************************************************************************)
RECURSIVE BitAnd(_, _)
BitAnd(x, y) ==
    IF x = 0 \/ y = 0 THEN 0
    ELSE (x % 2) * (y % 2) + 2 * BitAnd(x \div 2, y \div 2)

Low8(d) == (d + 256) % 256

round_up(n, a) == IF a = 0 THEN n ELSE ((n + (a - 1)) \div a) * a

u8(b) == b

\* is_cont testing the top bit alone: (b & 0x80) == 0x80
is_cont_top_bit(b) == BitAnd(b, 128) = 128

is_cont(b) == BitAnd(u8(b), 192) = 128

is_lead(b) == u8(b) >= 194 /\ u8(b) <= 244

(***************************************************************************)
(* The byte pool: one allocation of buffer_count * stride bytes, addressed *)
(* by offset.  Reads outside the allocation yield Junk, writes outside it  *)
(* are dropped; OutOfPool records that such an access was attempted.       *)
(***************************************************************************)
stride == round_up(buffer_size, cacheline_stride)

total == buffer_count * stride

buffer_in_flight == buffer_count - 1

Rd(m, i) == IF i \in DOMAIN m THEN m[i] ELSE Junk

OutOfPool(m, lo, n) == n > 0 /\ (lo \notin DOMAIN m \/ (lo + n - 1) \notin DOMAIN m)

\* memcpy that stops one byte short
memcpy_short(m, dst, src, n) ==
    [i \in DOMAIN m |->
        IF dst <= i /\ i < dst + n - 1 THEN Rd(m, src + (i - dst)) ELSE m[i]]

memcpy(m, dst, src, n) ==
    [i \in DOMAIN m |->
        IF dst <= i /\ i < dst + n THEN Rd(m, src + (i - dst)) ELSE m[i]]

\* std::memchr(base, '\n', n): index of the first LF relative to base, -1 for null
RECURSIVE memchr_from(_, _, _, _)
memchr_from(m, base, i, n) ==
    IF i >= n THEN -1
    ELSE IF Rd(m, base + i) = LF THEN i
    ELSE memchr_from(m, base, i + 1, n)

memchr(m, base, n) == memchr_from(m, base, 0, n)

\* ranges_reverse with the end iterator one element too far
ranges_reverse_past_end(m, lo, hi) ==
    [i \in DOMAIN m |->
        IF lo <= i /\ i <= hi THEN Rd(m, lo + hi - i) ELSE m[i]]

\* std::ranges::reverse over the absolute range [lo, hi)
ranges_reverse(m, lo, hi) ==
    [i \in DOMAIN m |->
        IF lo <= i /\ i < hi THEN Rd(m, lo + hi - 1 - i) ELSE m[i]]

Bytes(m, lo, n) == [k \in 1..n |-> Rd(m, lo + k - 1)]

(***************************************************************************)
(* utilities::reverse_range on the span starting at base.                  *)
(***************************************************************************)
RECURSIVE ContRunEnd(_, _, _, _)
ContRunEnd(m, base, i, to) ==
    IF i < to /\ is_cont(Rd(m, base + i)) THEN ContRunEnd(m, base, i + 1, to)
    ELSE i

RECURSIVE reverse_range_pass2(_, _, _, _)
reverse_range_pass2(m, base, i, to) ==
    IF i >= to THEN [ok |-> TRUE, mem |-> m]
    ELSE IF ~is_cont(Rd(m, base + i)) THEN reverse_range_pass2(m, base, i + 1, to)
    ELSE LET start == i
             j == ContRunEnd(m, base, i, to)
         IN  IF j >= to \/ ~is_lead(Rd(m, base + j))
             THEN [ok |-> FALSE, mem |-> m]
             ELSE LET len == (j - start) + 1
                  IN  reverse_range_pass2(
                          ranges_reverse(m, base + start, base + start + len),
                          base, start + len, to)

\* reverse_range whose first pass reverses subspan(0, to)
reverse_range_from_start(m, base, from, to) ==
    IF to <= from THEN [ok |-> TRUE, mem |-> m]
    ELSE reverse_range_pass2(ranges_reverse(m, base, base + to), base, from, to)

reverse_range(m, base, from, to) ==
    IF to <= from THEN [ok |-> TRUE, mem |-> m]
    ELSE reverse_range_pass2(ranges_reverse(m, base + from, base + to), base, from, to)

(***************************************************************************)
(* Segment and Job.                                                        *)
(***************************************************************************)
Segment(b, l, o) == [buff_ |-> b, len_ |-> l, off_ |-> o]

Job(a, b) == [seg_ |-> (0 :> a) @@ (1 :> b), seg_count_ |-> 2]

(***************************************************************************)
(* utilities::mt: the worker's segment processor.  W is the record of what *)
(* the call works on: the pool, the job's input and carry segments, the    *)
(* worker's private carry, whether the call threw, and whether it touched  *)
(* bytes outside the pool.  Asserts are compiled out (-DNDEBUG).           *)
(***************************************************************************)
\* handle_eof that hands the pending carry to the job by assignment and keeps
\* it: no swap
mt_handle_eof_assign(W) ==
    LET prev == W.seg_carry_prev
        to == prev.len_
        rr == reverse_range(W.mem, prev.buff_, prev.off_, to)
    IN  IF ~rr.ok
        THEN [W EXCEPT !.mem = rr.mem, !.threw = TRUE]
        ELSE [W EXCEPT !.mem = rr.mem,
                       !.seg_carry = W.seg_carry_prev]

mt_handle_eof(W) ==
    LET prev == W.seg_carry_prev
        to == prev.len_
        rr == reverse_range(W.mem, prev.buff_, prev.off_, to)
    IN  IF ~rr.ok
        THEN [W EXCEPT !.mem = rr.mem, !.threw = TRUE]
        ELSE [W EXCEPT !.mem = rr.mem,
                       !.seg_carry = W.seg_carry_prev,
                       !.seg_carry_prev = W.seg_carry]

\* handle_carry that excludes the LF alone from the reversal, never a CR
mt_handle_carry_lf_only(lf, W) ==
    LET prev == W.seg_carry_prev
        prefix_size == lf + 1
        m1 == memcpy(W.mem, prev.buff_ + prev.len_, W.seg_in.buff_, prefix_size)
        over == OutOfPool(W.mem, prev.buff_ + prev.len_, prefix_size)
        len1 == prev.len_ + prefix_size
        to0 == IF len1 >= 1 THEN len1 - 1 ELSE 0
        to == to0
        rr == reverse_range(m1, prev.buff_, 0, to)
        prev1 == [prev EXCEPT !.len_ = len1]
    IN  IF ~rr.ok
        THEN [W EXCEPT !.mem = rr.mem, !.seg_carry_prev = prev1,
                       !.threw = TRUE, !.oob = W.oob \/ over]
        ELSE [W EXCEPT !.mem = rr.mem,
                       !.seg_in = [W.seg_in EXCEPT !.len_ = W.seg_in.len_ - prefix_size,
                                                   !.off_ = prefix_size],
                       !.seg_carry = prev1,
                       !.seg_carry_prev = W.seg_carry,
                       !.oob = W.oob \/ over]

mt_handle_carry(lf, W) ==
    LET prev == W.seg_carry_prev
        prefix_size == lf + 1
        m1 == memcpy(W.mem, prev.buff_ + prev.len_, W.seg_in.buff_, prefix_size)
        over == OutOfPool(W.mem, prev.buff_ + prev.len_, prefix_size)
        len1 == prev.len_ + prefix_size
        to0 == IF len1 >= 1 THEN len1 - 1 ELSE 0
        to == IF to0 > 0 /\ Rd(m1, prev.buff_ + to0 - 1) = CR THEN to0 - 1 ELSE to0
        rr == reverse_range(m1, prev.buff_, 0, to)
        prev1 == [prev EXCEPT !.len_ = len1]
    IN  IF ~rr.ok
        THEN [W EXCEPT !.mem = rr.mem, !.seg_carry_prev = prev1,
                       !.threw = TRUE, !.oob = W.oob \/ over]
        ELSE [W EXCEPT !.mem = rr.mem,
                       !.seg_in = [W.seg_in EXCEPT !.len_ = W.seg_in.len_ - prefix_size,
                                                   !.off_ = prefix_size],
                       !.seg_carry = prev1,
                       !.seg_carry_prev = W.seg_carry,
                       !.oob = W.oob \/ over]

\* the while loop of mt::reverse_segment over the span [base, base + pos_end)
RECURSIVE mt_line_loop(_, _, _, _)
mt_line_loop(W, base, pos_end, curr_pos) ==
    IF curr_pos >= pos_end THEN W
    ELSE LET lf_next == memchr(W.mem, base + curr_pos, pos_end - curr_pos)
         IN  IF lf_next = -1
             THEN LET tail == pos_end - curr_pos
                  IN  [W EXCEPT !.seg_in = [W.seg_in EXCEPT !.len_ = curr_pos],
                                !.mem = memcpy(W.mem, W.seg_carry_prev.buff_,
                                               base + curr_pos, tail),
                                !.seg_carry_prev = [W.seg_carry_prev EXCEPT
                                                       !.off_ = 0, !.len_ = tail],
                                !.oob = W.oob \/ OutOfPool(W.mem, W.seg_carry_prev.buff_, tail)]
             ELSE LET lf == curr_pos + lf_next
                      end == IF lf > curr_pos /\ Rd(W.mem, base + lf - 1) = CR
                             THEN lf - 1 ELSE lf
                      rr == reverse_range(W.mem, base, curr_pos, end)
                  IN  IF ~rr.ok
                      THEN [W EXCEPT !.mem = rr.mem, !.threw = TRUE]
                      ELSE mt_line_loop([W EXCEPT !.mem = rr.mem], base, pos_end, lf + 1)

\* the line loop run over the chunk's whole length from the segment's offset:
\* the prefix moved to the carry is not taken off the span
mt_lines_chunk_length(W) ==
    mt_line_loop(W, W.seg_in.buff_ + W.seg_in.off_, W.seg_in.len_ + W.seg_in.off_, 0)

mt_lines(W) ==
    mt_line_loop(W, W.seg_in.buff_ + W.seg_in.off_, W.seg_in.len_, 0)

mt_reverse_segment(W) ==
    IF W.seg_carry_prev.len_ > 0
    THEN LET lf == memchr(W.mem, W.seg_in.buff_, W.seg_in.len_)
         IN  IF lf = -1 THEN mt_handle_eof(W)
             ELSE LET W1 == mt_handle_carry(lf, W)
                  IN  IF W1.threw THEN W1 ELSE mt_lines(W1)
    ELSE mt_lines(W)

(***************************************************************************)
(* SPSC_LFQ: the ring of 8-bit indices.  The slots come from allocate()    *)
(* and are not initialised.                                                *)
(***************************************************************************)
SPSC_LFQ(capacity) ==
    [queue_ |-> [i \in 0..(capacity - 1) |-> Junk],
     cap_   |-> capacity,
     mask_  |-> Low8(capacity - 1),
     read_  |-> 0,
     write_ |-> 0]

\* write_next_of without the wrap: write + 1, not (write + 1) & mask_
write_next_unmasked(q, write) == Low8(write + 1)

write_next_of(q, write) == Low8(BitAnd(write + 1, q.mask_))

\* read_next_of that stores the index it loaded: read, not (read + 1) & mask_
read_next_stuck(q, read) == Low8(BitAnd(read, q.mask_))

read_next_of(q, read) == Low8(BitAnd(read + 1, q.mask_))

\* push_full that never finds the ring full
push_full_never(write_next, read) == FALSE

\* push_full comparing the index after the next one: a ring that gives up
\* two slots, not one
push_full_early(write_next, read) == write_next = read \/ write_next + 1 = read

\* the two tests that make push and pop return false
push_full(write_next, read) == write_next = read

\* pop_empty comparing in order: an index that wrapped is below the other
pop_empty_ordered(read, write) == read >= write

pop_empty(read, write) == read = write

push(q, item) ==
    LET write == q.write_
        write_next == write_next_of(q, write)
    IN  IF push_full(write_next, q.read_)
        THEN [ok |-> FALSE, q |-> q]
        ELSE [ok |-> TRUE,
              q  |-> [q EXCEPT !.queue_[write] = item, !.write_ = write_next]]

\* pop that takes the item pushed last, as a stack would
pop_newest(q, item) ==
    LET last == Low8(BitAnd(q.write_ + q.cap_ - 1, q.mask_))
    IN  IF pop_empty(q.read_, q.write_)
        THEN [ok |-> FALSE, q |-> q, item |-> item]
        ELSE [ok |-> TRUE, q |-> [q EXCEPT !.write_ = last], item |-> q.queue_[last]]

\* pop that copies the slot and leaves the read index where it was
pop_keep(q, item) ==
    LET read == q.read_
    IN  IF pop_empty(read, q.write_)
        THEN [ok |-> FALSE, q |-> q, item |-> item]
        ELSE [ok |-> TRUE, q |-> q, item |-> q.queue_[read]]

pop(q, item) ==
    LET read == q.read_
    IN  IF pop_empty(read, q.write_)
        THEN [ok |-> FALSE, q |-> q, item |-> item]
        ELSE [ok |-> TRUE,
              q  |-> [q EXCEPT !.read_ = read_next_of(q, read)],
              item |-> q.queue_[read]]

\* (write - read) & mask_: the difference is an int, possibly negative, and
\* its low two's-complement bits are those of the difference plus 2^16
size(q) == BitAnd((q.write_ - q.read_ + 65536) % 65536, q.mask_)

\* empty() that answers from a full ring: size() == mask_, not size() == 0
empty_when_full(q) == size(q) = q.mask_

empty(q) == size(q) = 0

(***************************************************************************)
(* State of the pipeline.                                                  *)
(***************************************************************************)
VARIABLES
    inp,            \* content of the input file
    io_err,         \* read errors the input device has yet to report
    rpos,           \* file offset of io_input
    out,            \* bytes written to the output file
    mem,            \* the pool `raw`
    job_arr,        \* the jobs, by index
    q_write_read,   \* writer -> reader
    q_read_work,    \* reader -> worker
    q_work_write,   \* worker -> writer
    reader,         \* [pc, job_index, was_empty] and history
    worker,         \* [pc, job_index, was_empty, seg_carry_prev] and history
    writer,         \* [pc, job_index, was_empty] and history
    main,           \* [pc, i]
    pool_ub,        \* an access outside the pool was attempted
    hq,             \* SpecQ: the queue under test
    prod,           \* SpecQ: the producer thread
    cons,           \* SpecQ: the consumer thread
    hist,           \* SpecQ: values accepted by push / returned by pop
    st,             \* SpecST: the single-threaded driver
    rcall,          \* SpecRR: one call of reverse_range
    mtc             \* SpecMT: one call of mt::reverse_segment

pipe_vars == <<inp, io_err, rpos, out, mem, job_arr, q_write_read, q_read_work,
               q_work_write, reader, worker, writer, main, pool_ub>>

RECURSIVE InputsOfLen(_)
InputsOfLen(n) ==
    IF n = 0 THEN {<<>>}
    ELSE UNION {{Append(s, c) : c \in Cell(n)} : s \in InputsOfLen(n - 1)}

Inputs == UNION {InputsOfLen(n) : n \in 0..MaxLen}

\* main, lines 86-97: carve the job buffers and push 0 .. J-1 on write->read
RECURSIVE InitPush(_, _)
InitPush(q, j) ==
    IF 2 * j >= buffer_in_flight THEN q ELSE InitPush(push(q, j).q, j + 1)

InitJobs ==
    [j \in 0..((buffer_in_flight \div 2) - 1) |->
        Job(Segment((2 * j) * stride, 0, 0), Segment((2 * j + 1) * stride, 0, 0))]

seg_carry_unique == Segment((buffer_count - 1) * stride, 0, 0)

\* the threads before they are spawned.  History kept for the statements
\* about the loops' exits and about order: reader.k counts the reads, and
\* for the latest read into job j reader.n_of[j] is what it returned,
\* reader.k_of[j] its number and reader.pos_of[j] the file offset it read
\* from; worker.k and writer.k count the jobs popped, n_in and k_in are the
\* n_of and k_of of the job the thread popped last, and writer.wrote is that
\* job as the writer found it.
ReaderInit ==
    [pc |-> "unstarted", job_index |-> 0, was_empty |-> FALSE,
     n_of |-> [j \in DOMAIN InitJobs |-> 0], k |-> 0,
     k_of |-> [j \in DOMAIN InitJobs |-> 0],
     pos_of |-> [j \in DOMAIN InitJobs |-> 0]]

WorkerInit ==
    [pc |-> "unstarted", job_index |-> 0, was_empty |-> FALSE,
     seg_carry_prev |-> seg_carry_unique, n_in |-> 0, k |-> 0, k_in |-> 0]

WriterInit ==
    [pc |-> "unstarted", job_index |-> 0, was_empty |-> FALSE, n_in |-> 0,
     k |-> 0, k_in |-> 0, wrote |-> Job(Segment(0, 0, 0), Segment(0, 0, 0))]

PipeInit ==
    /\ inp \in Inputs
    /\ io_err = 0
    /\ rpos = 0
    /\ out = <<>>
    /\ mem = [i \in 0..(total - 1) |-> Junk]
    /\ job_arr = InitJobs
    /\ q_write_read = InitPush(SPSC_LFQ(queue_size), 0)
    /\ q_read_work = SPSC_LFQ(queue_size)
    /\ q_work_write = SPSC_LFQ(queue_size)
    /\ reader = ReaderInit
    /\ worker = WorkerInit
    /\ writer = WriterInit
    /\ main = [pc |-> "spawn", i |-> 0]
    /\ pool_ub = FALSE

Alive == main.pc # "terminated"

\* an exception leaves a thread function (or main): std::terminate
Terminate == main' = [main EXCEPT !.pc = "terminated"]

\* condition_variable::notify_one on the one possible waiter
Notified(t) == IF t.pc = "waiting" THEN [t EXCEPT !.pc = "wait_pred"] ELSE t

\* io_raii::read that hands back one byte more than it was asked for
io_read_over(file, pos, nbytes) ==
    LET avail == Len(file) - pos
    IN  IF avail < nbytes + 1 THEN avail ELSE nbytes + 1

\* io_raii::read on a regular file
io_read(file, pos, nbytes) ==
    LET avail == Len(file) - pos
    IN  IF avail < nbytes THEN avail ELSE nbytes

\* what io_input.read may return: the byte count, or -1 while the device has
\* an error to report
ReadOutcomes ==
    {io_read(inp, rpos, buffer_size)} \cup (IF io_err > 0 THEN {-1} ELSE {})

\* seg_in.len_ = n: the ssize_t converted to std::size_t
to_size_t(n) == (n + 2 ^ SizeBits) % (2 ^ SizeBits)

q_vars == <<hq, prod, cons, hist>>

vars == <<pipe_vars, q_vars, st, rcall, mtc>>

OnlyPipe == UNCHANGED <<q_vars, st, rcall, mtc>>

(***************************************************************************)
(* The reader thread (read lambda).                                        *)
(***************************************************************************)
ReaderCheck ==
    /\ Alive /\ reader.pc = "check"
    /\ reader' = [reader EXCEPT !.pc = IF empty(q_write_read) THEN "wait_pred" ELSE "pop"]
    /\ UNCHANGED <<inp, io_err, rpos, out, mem, job_arr, q_write_read, q_read_work,
                   q_work_write, worker, writer, main, pool_ub>>
    /\ OnlyPipe

\* unique_lock + the predicate test of condition_variable::wait
ReaderWaitPred ==
    /\ Alive /\ reader.pc = "wait_pred"
    /\ reader' = [reader EXCEPT !.pc = IF ~empty(q_write_read) THEN "pop" ELSE "wait_block"]
    /\ UNCHANGED <<inp, io_err, rpos, out, mem, job_arr, q_write_read, q_read_work,
                   q_work_write, worker, writer, main, pool_ub>>
    /\ OnlyPipe

\* the thread releases the mutex and blocks on write_read_cv
ReaderBlock ==
    /\ Alive /\ reader.pc = "wait_block"
    /\ reader' = [reader EXCEPT !.pc = "waiting"]
    /\ UNCHANGED <<inp, io_err, rpos, out, mem, job_arr, q_write_read, q_read_work,
                   q_work_write, worker, writer, main, pool_ub>>
    /\ OnlyPipe

ReaderSpurious ==
    /\ Alive /\ reader.pc = "waiting"
    /\ reader' = [reader EXCEPT !.pc = "wait_pred"]
    /\ UNCHANGED <<inp, io_err, rpos, out, mem, job_arr, q_write_read, q_read_work,
                   q_work_write, worker, writer, main, pool_ub>>
    /\ OnlyPipe

\* pop a job index and read the next chunk into the job's input segment
ReaderPop ==
    /\ Alive /\ reader.pc = "pop"
    /\ LET r == pop(q_write_read, reader.job_index)
       IN  IF ~r.ok
           THEN /\ Terminate
                /\ reader' = [reader EXCEPT !.pc = "threw"]
                /\ UNCHANGED <<rpos, io_err, mem, job_arr, q_write_read>>
           ELSE \E n \in ReadOutcomes :
                LET job_curr == job_arr[r.item]
                    k == job_curr.seg_count_ - 1
                    seg_in == job_curr.seg_[k]
                IN  /\ q_write_read' = r.q
                    /\ mem' = [i \in DOMAIN mem |->
                                 IF seg_in.buff_ <= i /\ i < seg_in.buff_ + n
                                 THEN inp[rpos + (i - seg_in.buff_) + 1] ELSE mem[i]]
                    /\ rpos' = IF n > 0 THEN rpos + n ELSE rpos
                    /\ io_err' = IF n < 0 THEN io_err - 1 ELSE io_err
                    /\ job_arr' = [job_arr EXCEPT ![r.item].seg_[k].len_ = to_size_t(n)]
                    /\ reader' = [reader EXCEPT !.pc = "sample", !.job_index = r.item,
                                                !.n_of[r.item] = n,
                                                !.k = reader.k + 1,
                                                !.k_of[r.item] = reader.k + 1,
                                                !.pos_of[r.item] = rpos]
                    /\ UNCHANGED main
    /\ UNCHANGED <<inp, out, q_read_work, q_work_write, worker, writer, pool_ub>>
    /\ OnlyPipe

ReaderSample ==
    /\ Alive /\ reader.pc = "sample"
    /\ reader' = [reader EXCEPT !.pc = "push", !.was_empty = empty(q_read_work)]
    /\ UNCHANGED <<inp, io_err, rpos, out, mem, job_arr, q_write_read, q_read_work,
                   q_work_write, worker, writer, main, pool_ub>>
    /\ OnlyPipe

ReaderPush ==
    /\ Alive /\ reader.pc = "push"
    /\ LET p == push(q_read_work, reader.job_index)
       IN  /\ q_read_work' = p.q
           /\ reader' = [reader EXCEPT !.pc = IF p.ok /\ reader.was_empty
                                              THEN "notify" ELSE "test"]
    /\ UNCHANGED <<inp, io_err, rpos, out, mem, job_arr, q_write_read,
                   q_work_write, worker, writer, main, pool_ub>>
    /\ OnlyPipe

ReaderNotify ==
    /\ Alive /\ reader.pc = "notify"
    /\ worker' = Notified(worker)
    /\ reader' = [reader EXCEPT !.pc = "test"]
    /\ UNCHANGED <<inp, io_err, rpos, out, mem, job_arr, q_write_read, q_read_work,
                   q_work_write, writer, main, pool_ub>>
    /\ OnlyPipe

\* if (seg_in.len_ <= 0) break;  -- read after the job was handed off
ReaderTest ==
    /\ Alive /\ reader.pc = "test"
    /\ LET job_curr == job_arr[reader.job_index]
           seg_in == job_curr.seg_[job_curr.seg_count_ - 1]
       IN  reader' = [reader EXCEPT !.pc = IF seg_in.len_ <= 0 THEN "done" ELSE "check"]
    /\ UNCHANGED <<inp, io_err, rpos, out, mem, job_arr, q_write_read, q_read_work,
                   q_work_write, worker, writer, main, pool_ub>>
    /\ OnlyPipe

(***************************************************************************)
(* The worker thread (work lambda).                                        *)
(***************************************************************************)
WorkerCheck ==
    /\ Alive /\ worker.pc = "check"
    /\ worker' = [worker EXCEPT !.pc = IF empty(q_read_work) THEN "wait_pred" ELSE "pop"]
    /\ UNCHANGED <<inp, io_err, rpos, out, mem, job_arr, q_write_read, q_read_work, q_work_write, reader, writer, main, pool_ub>>
    /\ OnlyPipe

WorkerWaitPred ==
    /\ Alive /\ worker.pc = "wait_pred"
    /\ worker' = [worker EXCEPT !.pc = IF ~empty(q_read_work) THEN "pop" ELSE "wait_block"]
    /\ UNCHANGED <<inp, io_err, rpos, out, mem, job_arr, q_write_read, q_read_work, q_work_write, reader, writer, main, pool_ub>>
    /\ OnlyPipe

WorkerBlock ==
    /\ Alive /\ worker.pc = "wait_block"
    /\ worker' = [worker EXCEPT !.pc = "waiting"]
    /\ UNCHANGED <<inp, io_err, rpos, out, mem, job_arr, q_write_read, q_read_work, q_work_write, reader, writer, main, pool_ub>>
    /\ OnlyPipe

WorkerSpurious ==
    /\ Alive /\ worker.pc = "waiting"
    /\ worker' = [worker EXCEPT !.pc = "wait_pred"]
    /\ UNCHANGED <<inp, io_err, rpos, out, mem, job_arr, q_write_read, q_read_work, q_work_write, reader, writer, main, pool_ub>>
    /\ OnlyPipe

\* pop a job index and run mt::reverse_segment on it
WorkerPop ==
    /\ Alive /\ worker.pc = "pop"
    /\ LET r == pop(q_read_work, worker.job_index)
       IN  IF ~r.ok
           THEN /\ Terminate
                /\ worker' = [worker EXCEPT !.pc = "threw"]
                /\ UNCHANGED <<mem, job_arr, q_read_work, pool_ub>>
           ELSE LET job_item == job_arr[r.item]
                    W == mt_reverse_segment(
                             [mem |-> mem,
                              seg_in |-> job_item.seg_[1],
                              seg_carry |-> job_item.seg_[0],
                              seg_carry_prev |-> worker.seg_carry_prev,
                              threw |-> FALSE, oob |-> FALSE])
                IN  /\ q_read_work' = r.q
                    /\ mem' = W.mem
                    /\ job_arr' = [job_arr EXCEPT ![r.item].seg_[0] = W.seg_carry,
                                                  ![r.item].seg_[1] = W.seg_in]
                    /\ pool_ub' = (pool_ub \/ W.oob)
                    /\ worker' = [worker EXCEPT !.pc = IF W.threw THEN "threw" ELSE "sample",
                                                !.job_index = r.item,
                                                !.seg_carry_prev = W.seg_carry_prev,
                                                !.n_in = reader.n_of[r.item],
                                                !.k = worker.k + 1,
                                                !.k_in = reader.k_of[r.item]]
                    /\ IF W.threw THEN Terminate ELSE UNCHANGED main
    /\ UNCHANGED <<inp, io_err, rpos, out, q_write_read, q_work_write, reader, writer>>
    /\ OnlyPipe

WorkerSample ==
    /\ Alive /\ worker.pc = "sample"
    /\ worker' = [worker EXCEPT !.pc = "push", !.was_empty = empty(q_work_write)]
    /\ UNCHANGED <<inp, io_err, rpos, out, mem, job_arr, q_write_read, q_read_work, q_work_write, reader, writer, main, pool_ub>>
    /\ OnlyPipe

WorkerPush ==
    /\ Alive /\ worker.pc = "push"
    /\ LET p == push(q_work_write, worker.job_index)
       IN  /\ q_work_write' = p.q
           /\ worker' = [worker EXCEPT !.pc = IF p.ok /\ worker.was_empty
                                              THEN "notify" ELSE "test"]
    /\ UNCHANGED <<inp, io_err, rpos, out, mem, job_arr, q_write_read, q_read_work, reader, writer, main, pool_ub>>
    /\ OnlyPipe

WorkerNotify ==
    /\ Alive /\ worker.pc = "notify"
    /\ writer' = Notified(writer)
    /\ worker' = [worker EXCEPT !.pc = "test"]
    /\ UNCHANGED <<inp, io_err, rpos, out, mem, job_arr, q_write_read, q_read_work, q_work_write, reader, main, pool_ub>>
    /\ OnlyPipe

\* if (seg_in.len_ <= 0) break;  -- read after the job was handed off
WorkerTest ==
    /\ Alive /\ worker.pc = "test"
    /\ worker' = [worker EXCEPT !.pc =
           IF job_arr[worker.job_index].seg_[1].len_ <= 0 THEN "done" ELSE "check"]
    /\ UNCHANGED <<inp, io_err, rpos, out, mem, job_arr, q_write_read, q_read_work, q_work_write, reader, writer, main, pool_ub>>
    /\ OnlyPipe

(***************************************************************************)
(* The writer thread (write lambda).  io_output.write / writeall_v write   *)
(* all the bytes they are given (the I/O adapter's contract).              *)
(***************************************************************************)
io_write(file, m, buf, nbytes) == file \o Bytes(m, buf, nbytes)

RECURSIVE writeall_v(_, _, _, _, _)
writeall_v(file, m, job_item, i, iovcnt) ==
    IF i >= iovcnt THEN file
    ELSE writeall_v(file \o Bytes(m, job_item.seg_[i].buff_ + job_item.seg_[i].off_,
                                  job_item.seg_[i].len_),
                    m, job_item, i + 1, iovcnt)

\* the writer taking every segment from the start of its buffer
WriterEmit_from_buffer_start(file, m, job_item) ==
    io_write(io_write(file, m, job_item.seg_[0].buff_, job_item.seg_[0].len_),
             m, job_item.seg_[1].buff_, job_item.seg_[1].len_)

\* lines 252-269: what one pass of the writer appends to the output
WriterEmit(file, m, job_item) ==
    LET seg_carry == job_item.seg_[0]
        seg_in == job_item.seg_[1]
        one == (seg_carry.len_ = 0) # (seg_in.len_ = 0)
        buf == IF seg_carry.len_ > 0 THEN seg_carry.buff_ ELSE seg_in.buff_
        buf_len == IF seg_carry.len_ > 0 THEN seg_carry.len_ ELSE seg_in.len_
        f1 == IF one THEN io_write(file, m, buf, buf_len) ELSE file
    IN  IF seg_carry.len_ > 0 /\ seg_in.len_ > 0
        THEN writeall_v(f1, m, job_item, 0, job_item.seg_count_)
        ELSE f1

\* clearing that resets the lengths and leaves the offsets
RECURSIVE ClearSegs_len_only(_, _)
ClearSegs_len_only(job_item, i) ==
    IF i >= job_item.seg_count_ THEN job_item
    ELSE ClearSegs_len_only([job_item EXCEPT !.seg_[i].len_ = 0], i + 1)

\* lines 274-279: clear the segments of a written job
RECURSIVE ClearSegs(_, _)
ClearSegs(job_item, i) ==
    IF i >= job_item.seg_count_ THEN job_item
    ELSE ClearSegs([job_item EXCEPT !.seg_[i].len_ = 0, !.seg_[i].off_ = 0], i + 1)

WriterCheck ==
    /\ Alive /\ writer.pc = "check"
    /\ writer' = [writer EXCEPT !.pc = IF empty(q_work_write) THEN "wait_pred" ELSE "pop"]
    /\ UNCHANGED <<inp, io_err, rpos, out, mem, job_arr, q_write_read, q_read_work, q_work_write, reader, worker, main, pool_ub>>
    /\ OnlyPipe

WriterWaitPred ==
    /\ Alive /\ writer.pc = "wait_pred"
    /\ writer' = [writer EXCEPT !.pc = IF ~empty(q_work_write) THEN "pop" ELSE "wait_block"]
    /\ UNCHANGED <<inp, io_err, rpos, out, mem, job_arr, q_write_read, q_read_work, q_work_write, reader, worker, main, pool_ub>>
    /\ OnlyPipe

WriterBlock ==
    /\ Alive /\ writer.pc = "wait_block"
    /\ writer' = [writer EXCEPT !.pc = "waiting"]
    /\ UNCHANGED <<inp, io_err, rpos, out, mem, job_arr, q_write_read, q_read_work, q_work_write, reader, worker, main, pool_ub>>
    /\ OnlyPipe

WriterSpurious ==
    /\ Alive /\ writer.pc = "waiting"
    /\ writer' = [writer EXCEPT !.pc = "wait_pred"]
    /\ UNCHANGED <<inp, io_err, rpos, out, mem, job_arr, q_write_read, q_read_work, q_work_write, reader, worker, main, pool_ub>>
    /\ OnlyPipe

\* pop a job index, write its segments, then leave or clear the job
WriterPop ==
    /\ Alive /\ writer.pc = "pop"
    /\ LET r == pop(q_work_write, writer.job_index)
       IN  IF ~r.ok
           THEN /\ Terminate
                /\ writer' = [writer EXCEPT !.pc = "threw"]
                /\ UNCHANGED <<out, job_arr, q_work_write>>
           ELSE LET job_item == job_arr[r.item]
                    last == job_item.seg_[1].len_ <= 0
                IN  /\ q_work_write' = r.q
                    /\ out' = WriterEmit(out, mem, job_item)
                    /\ job_arr' = IF last THEN job_arr
                                  ELSE [job_arr EXCEPT ![r.item] = ClearSegs(job_item, 0)]
                    /\ writer' = [writer EXCEPT !.pc = IF last THEN "done" ELSE "sample",
                                                !.job_index = r.item,
                                                !.n_in = reader.n_of[r.item],
                                                !.k = writer.k + 1,
                                                !.k_in = reader.k_of[r.item],
                                                !.wrote = job_item]
                    /\ UNCHANGED main
    /\ UNCHANGED <<inp, io_err, rpos, mem, q_write_read, q_read_work, reader, worker, pool_ub>>
    /\ OnlyPipe

WriterSample ==
    /\ Alive /\ writer.pc = "sample"
    /\ writer' = [writer EXCEPT !.pc = "push", !.was_empty = empty(q_write_read)]
    /\ UNCHANGED <<inp, io_err, rpos, out, mem, job_arr, q_write_read, q_read_work, q_work_write, reader, worker, main, pool_ub>>
    /\ OnlyPipe

WriterPush ==
    /\ Alive /\ writer.pc = "push"
    /\ LET p == push(q_write_read, writer.job_index)
       IN  /\ q_write_read' = p.q
           /\ writer' = [writer EXCEPT !.pc = IF p.ok /\ writer.was_empty
                                              THEN "notify" ELSE "check"]
    /\ UNCHANGED <<inp, io_err, rpos, out, mem, job_arr, q_read_work, q_work_write, reader, worker, main, pool_ub>>
    /\ OnlyPipe

WriterNotify ==
    /\ Alive /\ writer.pc = "notify"
    /\ reader' = Notified(reader)
    /\ writer' = [writer EXCEPT !.pc = "check"]
    /\ UNCHANGED <<inp, io_err, rpos, out, mem, job_arr, q_write_read, q_read_work, q_work_write, worker, main, pool_ub>>
    /\ OnlyPipe

(***************************************************************************)
(* main: spawn the three threads, pin them, join, close.                   *)
(***************************************************************************)
Started(t) == IF t.pc = "unstarted" THEN [t EXCEPT !.pc = "check"] ELSE t

\* threads[i] = std::jthread{ ... }
MainSpawn ==
    /\ main.pc = "spawn"
    /\ reader' = IF main.i = 0 THEN Started(reader) ELSE reader
    /\ worker' = IF main.i = 1 THEN Started(worker) ELSE worker
    /\ writer' = IF main.i = 2 THEN Started(writer) ELSE writer
    /\ main' = [main EXCEPT !.pc = "affinity"]
    /\ UNCHANGED <<inp, io_err, rpos, out, mem, job_arr, q_write_read, q_read_work, q_work_write, pool_ub>>
    /\ OnlyPipe

\* the slot named by threads[i + i] in iteration i of the spawn loop
PinSlot(i) == i + i

\* the slot threads[i + i] names a started thread
PinTargetStarted(i) ==
    \/ i + i = 0 /\ reader.pc # "unstarted"
    \/ i + i = 1 /\ worker.pc # "unstarted"
    \/ i + i = 2 /\ writer.pc # "unstarted"

MainNextIter ==
    IF main.i + 1 < 3 THEN [pc |-> "spawn", i |-> main.i + 1]
    ELSE [pc |-> "join", i |-> main.i + 1]

\* pthread_setaffinity_np(threads[i + i].native_handle(), ...): on a started
\* thread it returns 0; on an empty or out-of-range slot the call is undefined
\* and either goes on or ends the process (crash, or rc != 0 and the throw).
MainAffinity ==
    /\ main.pc = "affinity"
    /\ \/ main' = MainNextIter
       \/ ~PinTargetStarted(main.i) /\ Terminate
    /\ UNCHANGED <<inp, io_err, rpos, out, mem, job_arr, q_write_read, q_read_work, q_work_write, reader, worker, writer, pool_ub>>
    /\ OnlyPipe

\* for (auto& t : threads) t.join();
MainJoin ==
    /\ main.pc = "join"
    /\ reader.pc = "done" /\ worker.pc = "done" /\ writer.pc = "done"
    /\ main' = [main EXCEPT !.pc = "close"]
    /\ UNCHANGED <<inp, io_err, rpos, out, mem, job_arr, q_write_read, q_read_work, q_work_write, reader, worker, writer, pool_ub>>
    /\ OnlyPipe

\* io_input.close(); io_output.close(); return 0;
MainClose ==
    /\ main.pc = "close"
    /\ main' = [main EXCEPT !.pc = "returned"]
    /\ UNCHANGED <<inp, io_err, rpos, out, mem, job_arr, q_write_read, q_read_work, q_work_write, reader, worker, writer, pool_ub>>
    /\ OnlyPipe

PipeNext ==
    \/ ReaderCheck \/ ReaderWaitPred \/ ReaderBlock \/ ReaderSpurious
    \/ ReaderPop \/ ReaderSample \/ ReaderPush \/ ReaderNotify \/ ReaderTest
    \/ WorkerCheck \/ WorkerWaitPred \/ WorkerBlock \/ WorkerSpurious
    \/ WorkerPop \/ WorkerSample \/ WorkerPush \/ WorkerNotify \/ WorkerTest
    \/ WriterCheck \/ WriterWaitPred \/ WriterBlock \/ WriterSpurious
    \/ WriterPop \/ WriterSample \/ WriterPush \/ WriterNotify
    \/ MainSpawn \/ MainAffinity \/ MainJoin \/ MainClose

(***************************************************************************)
(* What the output must be: for each input line in order, the line's code  *)
(* points reversed, followed by the line's own terminator.                 *)
(***************************************************************************)
CPLen(b) ==
    IF b < 128 THEN 1
    ELSE IF b >= 194 /\ b <= 223 THEN 2
    ELSE IF b >= 224 /\ b <= 239 THEN 3
    ELSE IF b >= 240 /\ b <= 244 THEN 4
    ELSE 0

RECURSIVE ValidUTF8(_)
ValidUTF8(s) ==
    IF s = <<>> THEN TRUE
    ELSE LET n == CPLen(Head(s))
         IN  /\ n > 0
             /\ Len(s) >= n
             /\ \A k \in 2..n : s[k] >= 128 /\ s[k] <= 191
             /\ ValidUTF8(SubSeq(s, n + 1, Len(s)))

\* the code points of a valid string, last one first
RECURSIVE RevCodePoints(_)
RevCodePoints(s) ==
    IF s = <<>> THEN <<>>
    ELSE LET n == CPLen(Head(s))
         IN  RevCodePoints(SubSeq(s, n + 1, Len(s))) \o SubSeq(s, 1, n)

\* the lines of s, each with its terminator; the last one may have none
RECURSIVE LinesFrom(_, _, _)
LinesFrom(s, start, i) ==
    IF i > Len(s)
    THEN IF start > Len(s) THEN <<>> ELSE <<SubSeq(s, start, Len(s))>>
    ELSE IF s[i] = LF
         THEN <<SubSeq(s, start, i)>> \o LinesFrom(s, i + 1, i + 1)
         ELSE LinesFrom(s, start, i + 1)

Lines(s) == LinesFrom(s, 1, 1)

Terminator(line) ==
    IF line # <<>> /\ line[Len(line)] = LF
    THEN IF Len(line) >= 2 /\ line[Len(line) - 1] = CR THEN <<CR, LF>> ELSE <<LF>>
    ELSE <<>>

Content(line) == SubSeq(line, 1, Len(line) - Len(Terminator(line)))

ReversedLine(line) == RevCodePoints(Content(line)) \o Terminator(line)

RECURSIVE Concat(_)
Concat(ss) == IF ss = <<>> THEN <<>> ELSE Head(ss) \o Concat(Tail(ss))

Expected(s) == Concat([k \in 1..Len(Lines(s)) |-> ReversedLine(Lines(s)[k])])

LinesFit(s, n) == \A k \in 1..Len(Lines(s)) : Len(Lines(s)[k]) <= n

ValidInput(s) == ValidUTF8(s) /\ LinesFit(s, buffer_size)

IsPrefix(a, b) == Len(a) <= Len(b) /\ SubSeq(b, 1, Len(a)) = a

IsSuffix(a, b) == Len(a) <= Len(b) /\ SubSeq(b, Len(b) - Len(a) + 1, Len(b)) = a

ThreadsDone == reader.pc = "done" /\ worker.pc = "done" /\ writer.pc = "done"

(***************************************************************************)
(* SpecQ: one queue, one producer pushing 1, 2, ... MaxPush (retrying when *)
(* the queue is full) and one consumer popping.  Each atomic load and each *)
(* store of push and pop is a step of its own.  prod.e_write and           *)
(* prod.e_queue (cons.e_read, cons.e_item) remember the queue as the call  *)
(* found it; obs is the other side's index as the call loaded it.          *)
(***************************************************************************)
ProdInit ==
    [pc |-> "idle", item |-> 1, write |-> 0, write_next |-> 0, obs |-> 0,
     ret |-> FALSE, e_write |-> 0, e_queue |-> SPSC_LFQ(queue_size).queue_]

ConsInit ==
    [pc |-> "idle", item |-> Junk, read |-> 0, obs |-> 0, ret |-> FALSE,
     e_read |-> 0, e_item |-> Junk, got |-> 0]

QIdle ==
    /\ hq = SPSC_LFQ(queue_size)
    /\ prod = ProdInit
    /\ cons = ConsInit
    /\ hist = [pushed |-> <<>>, popped |-> <<>>]

OnlyQ == UNCHANGED <<pipe_vars, st, rcall, mtc>>

\* the producer calls push(item)
PushCall ==
    /\ prod.pc = "idle" /\ prod.item <= MaxPush
    /\ prod' = [prod EXCEPT !.pc = "load_write", !.e_write = hq.write_,
                            !.e_queue = hq.queue_]
    /\ UNCHANGED <<hq, cons, hist>> /\ OnlyQ

\* const auto write = write_.load(relaxed); write_next = (write + 1) & mask_
PushLoadWrite ==
    /\ prod.pc = "load_write"
    /\ prod' = [prod EXCEPT !.pc = "load_read", !.write = hq.write_,
                            !.write_next = write_next_of(hq, hq.write_)]
    /\ UNCHANGED <<hq, cons, hist>> /\ OnlyQ

\* if (write_next == read_.load(acquire)) return false;
PushLoadRead ==
    /\ prod.pc = "load_read"
    /\ prod' = [prod EXCEPT !.obs = hq.read_,
                            !.ret = FALSE,
                            !.pc = IF push_full(prod.write_next, hq.read_)
                                   THEN "ret" ELSE "store_slot"]
    /\ UNCHANGED <<hq, cons, hist>> /\ OnlyQ

\* queue_[write] = item;
PushStoreSlot ==
    /\ prod.pc = "store_slot"
    /\ hq' = [hq EXCEPT !.queue_[prod.write] = prod.item]
    /\ prod' = [prod EXCEPT !.pc = "store_write"]
    /\ UNCHANGED <<cons, hist>> /\ OnlyQ

\* write_.store(write_next, release); return true;
PushStoreWrite ==
    /\ prod.pc = "store_write"
    /\ hq' = [hq EXCEPT !.write_ = prod.write_next]
    /\ prod' = [prod EXCEPT !.pc = "ret", !.ret = TRUE]
    /\ hist' = [hist EXCEPT !.pushed = Append(hist.pushed, prod.item)]
    /\ UNCHANGED cons /\ OnlyQ

\* back in the producer: next value after an accepted push, same value again
\* after a full queue
PushReturn ==
    /\ prod.pc = "ret"
    /\ prod' = [prod EXCEPT !.pc = "idle",
                            !.item = IF prod.ret THEN prod.item + 1 ELSE prod.item]
    /\ UNCHANGED <<hq, cons, hist>> /\ OnlyQ

\* the consumer calls pop(item)
PopCall ==
    /\ cons.pc = "idle" /\ cons.got < MaxPush
    /\ cons' = [cons EXCEPT !.pc = "load_read", !.e_read = hq.read_,
                            !.e_item = cons.item]
    /\ UNCHANGED <<hq, prod, hist>> /\ OnlyQ

\* const auto read = read_.load(relaxed);
PopLoadRead ==
    /\ cons.pc = "load_read"
    /\ cons' = [cons EXCEPT !.pc = "load_write", !.read = hq.read_]
    /\ UNCHANGED <<hq, prod, hist>> /\ OnlyQ

\* if (read == write_.load(acquire)) return false;
PopLoadWrite ==
    /\ cons.pc = "load_write"
    /\ cons' = [cons EXCEPT !.obs = hq.write_,
                            !.ret = FALSE,
                            !.pc = IF pop_empty(cons.read, hq.write_)
                                   THEN "ret" ELSE "load_slot"]
    /\ UNCHANGED <<hq, prod, hist>> /\ OnlyQ

\* item = queue_[read];
PopLoadSlot ==
    /\ cons.pc = "load_slot"
    /\ cons' = [cons EXCEPT !.pc = "store_read", !.item = hq.queue_[cons.read]]
    /\ UNCHANGED <<hq, prod, hist>> /\ OnlyQ

\* read_.store((read + 1) & mask_, release); return true;
PopStoreRead ==
    /\ cons.pc = "store_read"
    /\ hq' = [hq EXCEPT !.read_ = read_next_of(hq, cons.read)]
    /\ cons' = [cons EXCEPT !.pc = "ret", !.ret = TRUE]
    /\ hist' = [hist EXCEPT !.popped = Append(hist.popped, cons.item)]
    /\ UNCHANGED prod /\ OnlyQ

PopReturn ==
    /\ cons.pc = "ret"
    /\ cons' = [cons EXCEPT !.pc = "idle",
                            !.got = IF cons.ret THEN cons.got + 1 ELSE cons.got]
    /\ UNCHANGED <<hq, prod, hist>> /\ OnlyQ

QNext ==
    \/ PushCall \/ PushLoadWrite \/ PushLoadRead \/ PushStoreSlot
    \/ PushStoreWrite \/ PushReturn
    \/ PopCall \/ PopLoadRead \/ PopLoadWrite \/ PopLoadSlot
    \/ PopStoreRead \/ PopReturn

(***************************************************************************)
(* utilities::st: the single-threaded segment processor.  T is the record  *)
(* of what the call works on: the pool, the input segment, the two carry   *)
(* segments, the Job being filled, whether the call threw.                 *)
(***************************************************************************)
EmptyJob == [seg_ |-> (0 :> Segment(-1, 0, 0)) @@ (1 :> Segment(-1, 0, 0)),
             seg_count_ |-> 0]

\* item_to_write.seg_[index_seg++] = seg
AddSeg(item, seg) ==
    [item EXCEPT !.seg_[item.seg_count_] = seg, !.seg_count_ = item.seg_count_ + 1]

st_handle_carry(lf, T) ==
    LET prefix_size == lf + 1
        m1 == memcpy(T.mem, T.carry.buff_ + T.carry.len_, T.seg_recent.buff_, prefix_size)
        len1 == T.carry.len_ + prefix_size
        to0 == IF len1 >= 1 THEN len1 - 1 ELSE 0
        to == IF to0 > 0 /\ Rd(m1, T.carry.buff_ + to0 - 1) = CR THEN to0 - 1 ELSE to0
        m2 == IF to > 0 THEN reverse_range(m1, T.carry.buff_, 0, to).mem ELSE m1
        carry1 == [T.carry EXCEPT !.len_ = len1, !.off_ = 0]
    IN  [T EXCEPT !.mem = m2,
                  !.item_to_write = AddSeg(T.item_to_write, carry1),
                  !.carry = T.carry_backup,
                  !.carry_backup = [carry1 EXCEPT !.len_ = 0, !.off_ = 0],
                  !.seg_recent = [T.seg_recent EXCEPT
                                     !.len_ = T.seg_recent.len_ - prefix_size,
                                     !.off_ = prefix_size],
                  !.oob = T.oob \/ OutOfPool(T.mem, T.carry.buff_ + T.carry.len_, prefix_size)]

st_handle_carry_eof(T) ==
    LET m1 == memcpy(T.mem, T.carry.buff_ + T.carry.len_, T.seg_recent.buff_,
                     T.seg_recent.len_)
        len1 == T.carry.len_ + T.seg_recent.len_
        to == len1
        m2 == IF to > 0 THEN reverse_range(m1, T.carry.buff_, 0, to).mem ELSE m1
        carry1 == [T.carry EXCEPT !.len_ = len1]
    IN  [T EXCEPT !.mem = m2,
                  !.seg_recent = [T.seg_recent EXCEPT !.off_ = 0, !.len_ = 0],
                  !.item_to_write = AddSeg(T.item_to_write, carry1),
                  !.carry = T.carry_backup,
                  !.carry_backup = [carry1 EXCEPT !.len_ = 0, !.off_ = 0],
                  !.oob = T.oob \/ OutOfPool(T.mem, T.carry.buff_ + T.carry.len_,
                                             T.seg_recent.len_)]

\* the while loop of st::reverse_seg_recent over the span [base, base + pos_end)
RECURSIVE st_line_loop(_, _, _, _)
st_line_loop(T, base, pos_end, curr_pos) ==
    IF curr_pos >= pos_end THEN T
    ELSE LET lf_next == memchr(T.mem, base + curr_pos, pos_end - curr_pos)
         IN  IF lf_next = -1
             THEN LET tail == pos_end - curr_pos
                  IN  [T EXCEPT !.seg_recent = [T.seg_recent EXCEPT !.len_ = curr_pos],
                                !.mem = memcpy(T.mem, T.carry.buff_, base + curr_pos, tail),
                                !.carry = [T.carry EXCEPT !.off_ = 0, !.len_ = tail],
                                !.oob = T.oob \/ OutOfPool(T.mem, T.carry.buff_, tail)]
             ELSE LET lf == curr_pos + lf_next
                      end == IF lf > curr_pos /\ Rd(T.mem, base + lf - 1) = CR
                             THEN lf - 1 ELSE lf
                      rr == reverse_range(T.mem, base, curr_pos, end)
                  IN  IF ~rr.ok
                      THEN [T EXCEPT !.mem = rr.mem, !.threw = TRUE]
                      ELSE st_line_loop([T EXCEPT !.mem = rr.mem], base, pos_end, lf + 1)

st_reverse_seg_recent(T) ==
    LET T1 == st_line_loop(T, T.seg_recent.buff_ + T.seg_recent.off_, T.seg_recent.len_, 0)
    IN  IF T1.threw THEN T1
        ELSE [T1 EXCEPT !.item_to_write = AddSeg(T1.item_to_write, T1.seg_recent)]

st_reverse_segment(T) ==
    IF T.carry.len_ > 0
    THEN LET lf == memchr(T.mem, T.seg_recent.buff_, T.seg_recent.len_)
         IN  IF lf = -1 THEN st_handle_carry_eof(T)
             ELSE st_reverse_seg_recent(st_handle_carry(lf, T))
    ELSE st_reverse_seg_recent(T)

(***************************************************************************)
(* SpecST: the single-threaded driver (baseline main), run on an input x   *)
(* and then run again on the output of the first run.                      *)
(***************************************************************************)
\* the byte at position i of the driver's input: a terminator byte, a letter
\* proper to the position, or a byte of a two-byte code point
STCell(i) == {LF, CR, 96 + i, 195, 169}

RECURSIVE STInputsOfLen(_)
STInputsOfLen(n) ==
    IF n = 0 THEN {<<>>}
    ELSE UNION {{Append(s, c) : c \in STCell(n)} : s \in STInputsOfLen(n - 1)}

STInputs == UNION {STInputsOfLen(n) : n \in 0..STMaxLen}

\* main, lines 106-127 of the driver: three buffers carved from one block
STStart(x, src, bsz, pass) ==
    LET st_stride == round_up(bsz, cacheline_stride)
    IN  [pc |-> "loop", x |-> x, buf_size |-> bsz, pass |-> pass,
         src |-> src, pos |-> 0, out |-> <<>>,
         mem |-> [i \in 0..(3 * st_stride - 1) |-> Junk],
         seg_in |-> Segment(0 * st_stride, 0, 0),
         carry_seg_a |-> Segment(1 * st_stride, 0, 0),
         carry_seg_b |-> Segment(2 * st_stride, 0, 0),
         oob |-> FALSE]

STIdle == st = STStart(<<>>, <<>>, 1, 1)

STInit == \E x \in STInputs : \E bsz \in 1..STMaxBuf : st = STStart(x, x, bsz, 1)

OnlyST == UNCHANGED <<pipe_vars, q_vars, rcall, mtc>>

\* output.writeall_v(iov, item.seg_count_) when seg_count_ > 0
STEmit(file, m, item) ==
    IF item.seg_count_ > 0 THEN writeall_v(file, m, item, 0, item.seg_count_) ELSE file

\* one turn of the while (true) loop: read, reverse_segment, write, test n
STIterate ==
    /\ st.pc = "loop"
    /\ LET n == io_read(st.src, st.pos, st.buf_size)
           m0 == [i \in DOMAIN st.mem |->
                     IF st.seg_in.buff_ <= i /\ i < st.seg_in.buff_ + n
                     THEN st.src[st.pos + (i - st.seg_in.buff_) + 1] ELSE st.mem[i]]
           T == st_reverse_segment(
                    [mem |-> m0,
                     seg_recent |-> [st.seg_in EXCEPT !.len_ = n, !.off_ = 0],
                     carry |-> st.carry_seg_a,
                     carry_backup |-> st.carry_seg_b,
                     item_to_write |-> EmptyJob,
                     threw |-> FALSE, oob |-> FALSE])
       IN  st' = [st EXCEPT
                    !.pos = st.pos + n,
                    !.mem = T.mem,
                    !.seg_in = T.seg_recent,
                    !.carry_seg_a = T.carry,
                    !.carry_seg_b = T.carry_backup,
                    !.oob = st.oob \/ T.oob,
                    !.out = IF T.threw THEN st.out ELSE STEmit(st.out, T.mem, T.item_to_write),
                    !.pc = IF T.threw THEN "failed"
                           ELSE IF n <= 0 THEN "closed" ELSE "loop"]
    /\ OnlyST

\* the program is run again, on the file the first run wrote
STRunAgain ==
    /\ st.pc = "closed" /\ st.pass = 1
    /\ st' = STStart(st.x, st.out, st.buf_size, 2)
    /\ OnlyST

STNext == STIterate \/ STRunAgain

(***************************************************************************)
(* SpecRR: one call reverse_range(buf, from, to) on a buffer of up to       *)
(* RRMaxLen bytes, with 0 <= from, to <= size of the span.                  *)
(***************************************************************************)
\* the byte at position i of the buffer: an ASCII letter, a continuation
\* byte, the lead byte of a two-byte or of a three-byte sequence (all proper
\* to the position), or the lead byte 0xF0 of a four-byte sequence
RRCell(i) == {96 + i, 128 + i, 194 + i, 224 + i, 240}

RECURSIVE RRBuffersOfLen(_)
RRBuffersOfLen(n) ==
    IF n = 0 THEN {<<>>}
    ELSE UNION {{Append(s, c) : c \in RRCell(n)} : s \in RRBuffersOfLen(n - 1)}

RRBuffers == UNION {RRBuffersOfLen(n) : n \in 0..RRMaxLen}

\* the span over a sequence of bytes: index 0 is the first byte
SpanOf(b) == [i \in 0..(Len(b) - 1) |-> b[i + 1]]

RRStart(b, from, to) ==
    [pc |-> "call", buf0 |-> b, from |-> from, to |-> to,
     buf |-> SpanOf(b), ret |-> TRUE]

RRIdle == rcall = RRStart(<<>>, 0, 0)

RRInit ==
    \E b \in RRBuffers : \E from \in 0..Len(b) : \E to \in 0..Len(b) :
        rcall = RRStart(b, from, to)

\* the call: rcall.buf is the span afterwards, rcall.ret the value returned
RRCall ==
    /\ rcall.pc = "call"
    /\ LET r == reverse_range(rcall.buf, 0, rcall.from, rcall.to)
       IN  rcall' = [rcall EXCEPT !.pc = "returned", !.buf = r.mem, !.ret = r.ok]
    /\ UNCHANGED <<pipe_vars, q_vars, st, mtc>>

RRNext == RRCall

(***************************************************************************)
(* SpecMT: one call mt::reverse_segment(seg_in, seg_carry, seg_carry_prev) *)
(* as the worker makes it: the job's carry segment is empty, the job's     *)
(* input segment holds the chunk just read (up to buffer_size bytes), and  *)
(* the worker's private carry holds the unfinished tail of the chunks      *)
(* before (no LF in it, up to buffer_size bytes).  The three buffers are   *)
(* laid out as main lays out one job and seg_carry_unique.  When the call   *)
(* returns normally the job goes to the writer, which writes it.           *)
(***************************************************************************)
\* the byte at position i of the pending tail / of the chunk: a terminator
\* byte, a letter proper to the position, or a byte of a two-byte code point
MTCarryCell(i) == {CR, 96 + i, 195, 169}

MTInCell(i) == {LF, CR, 96 + buffer_size + i, 195, 169}

RECURSIVE MTCarriesOfLen(_)
MTCarriesOfLen(n) ==
    IF n = 0 THEN {<<>>}
    ELSE UNION {{Append(s, c) : c \in MTCarryCell(n)} : s \in MTCarriesOfLen(n - 1)}

RECURSIVE MTChunksOfLen(_)
MTChunksOfLen(n) ==
    IF n = 0 THEN {<<>>}
    ELSE UNION {{Append(s, c) : c \in MTInCell(n)} : s \in MTChunksOfLen(n - 1)}

\* the pool with the bytes of s stored from offset lo on
Store(m, lo, s) ==
    [i \in DOMAIN m |-> IF lo <= i /\ i < lo + Len(s) THEN s[i - lo + 1] ELSE m[i]]

MTStart(c, x) ==
    [pc |-> "call", carry0 |-> c, in0 |-> x, out |-> <<>>,
     W |-> [mem |-> Store(Store([i \in 0..(3 * stride - 1) |-> Junk], stride, x),
                          2 * stride, c),
            seg_in |-> Segment(stride, Len(x), 0),
            seg_carry |-> Segment(0, 0, 0),
            seg_carry_prev |-> Segment(2 * stride, Len(c), 0),
            threw |-> FALSE, oob |-> FALSE]]

MTIdle == mtc = MTStart(<<>>, <<>>)

MTInit ==
    \E n \in 0..buffer_size : \E k \in 0..buffer_size :
        \E c \in MTCarriesOfLen(n) : \E x \in MTChunksOfLen(k) :
            mtc = MTStart(c, x)

\* the call: mtc.W is what the three segments and the buffers are afterwards
MTCall ==
    /\ mtc.pc = "call"
    /\ mtc' = [mtc EXCEPT !.pc = "returned", !.W = mt_reverse_segment(mtc.W)]
    /\ UNCHANGED <<pipe_vars, q_vars, st, rcall>>

\* the writer's pass over the job: lines 247-269 of the write lambda
MTWrite ==
    /\ mtc.pc = "returned" /\ ~mtc.W.threw
    /\ mtc' = [mtc EXCEPT !.pc = "written",
                          !.out = WriterEmit(mtc.out, mtc.W.mem,
                                             Job(mtc.W.seg_carry, mtc.W.seg_in))]
    /\ UNCHANGED <<pipe_vars, q_vars, st, rcall>>

MTNext == MTCall \/ MTWrite

(***************************************************************************)
(* The specifications.                                                     *)
(***************************************************************************)
PipeIdle ==
    /\ inp = <<>>
    /\ io_err = 0
    /\ rpos = 0
    /\ out = <<>>
    /\ mem = [i \in 0..(total - 1) |-> Junk]
    /\ job_arr = InitJobs
    /\ q_write_read = InitPush(SPSC_LFQ(queue_size), 0)
    /\ q_read_work = SPSC_LFQ(queue_size)
    /\ q_work_write = SPSC_LFQ(queue_size)
    /\ reader = ReaderInit
    /\ worker = WorkerInit
    /\ writer = WriterInit
    /\ main = [pc |-> "spawn", i |-> 0]
    /\ pool_ub = FALSE

Init == PipeInit /\ QIdle /\ STIdle /\ RRIdle /\ MTIdle

Next == PipeNext

Spec == Init /\ [][Next]_vars

InitQ == QIdle /\ PipeIdle /\ STIdle /\ RRIdle /\ MTIdle

SpecQ == InitQ /\ [][QNext]_vars

InitST == STInit /\ PipeIdle /\ QIdle /\ RRIdle /\ MTIdle

SpecST == InitST /\ [][STNext]_vars

InitRR == RRInit /\ PipeIdle /\ QIdle /\ STIdle /\ MTIdle

SpecRR == InitRR /\ [][RRNext]_vars

InitMT == MTInit /\ PipeIdle /\ QIdle /\ STIdle /\ RRIdle

SpecMT == InitMT /\ [][MTNext]_vars

\* the pipeline on a short file behind a device that reports read errors
InitRE ==
    /\ inp \in UNION {InputsOfLen(n) : n \in 0..REMaxLen}
    /\ io_err = MaxReadErr
    /\ rpos = 0
    /\ out = <<>>
    /\ mem = [i \in 0..(total - 1) |-> Junk]
    /\ job_arr = InitJobs
    /\ q_write_read = InitPush(SPSC_LFQ(queue_size), 0)
    /\ q_read_work = SPSC_LFQ(queue_size)
    /\ q_work_write = SPSC_LFQ(queue_size)
    /\ reader = ReaderInit
    /\ worker = WorkerInit
    /\ writer = WriterInit
    /\ main = [pc |-> "spawn", i |-> 0]
    /\ pool_ub = FALSE
    /\ QIdle /\ STIdle /\ RRIdle /\ MTIdle

SpecRE == InitRE /\ [][Next]_vars

(***************************************************************************)
(* The pipeline's contract (Spec).                                         *)
(***************************************************************************)
LastLine(s) == Lines(s)[Len(Lines(s))]

Unterminated(s) == s # <<>> /\ s[Len(s)] # LF

\* C1: once the reader, the worker and the writer have all left their loops,
\* the bytes written are exactly the concatenation, line by line in order, of
\* each input line's code points reversed followed by its own terminator, for
\* every valid input whose lines fit in buffer_size.
C1_OutputIsPerLineReversal ==
    (ThreadsDone /\ ValidInput(inp)) => out = Expected(inp)

\* C2: when the writer has exited and the input's last line has no
\* terminator, the output ends with that line reversed, without a terminator.
C2_FinalUnterminatedLineEmitted ==
    (writer.pc = "done" /\ ValidInput(inp) /\ Unterminated(inp))
        => /\ IsSuffix(RevCodePoints(LastLine(inp)), out)
           /\ Unterminated(out)

\* C3: the finished output has as many lines as the input, and its i-th
\* terminator (none, LF or CRLF) is the input's i-th terminator.
C3_LinePreservation ==
    (ThreadsDone /\ LinesFit(inp, buffer_size))
        => /\ Len(Lines(out)) = Len(Lines(inp))
           /\ \A k \in 1..Len(Lines(inp)) :
                  k <= Len(Lines(out))
                      => Terminator(Lines(out)[k]) = Terminator(Lines(inp)[k])

\* C5: in every reachable state, also of a run that stops early or aborts,
\* the bytes written so far are a prefix of the per-line-reversed input.
C5_PrefixSafety ==
    ValidInput(inp) => IsPrefix(out, Expected(inp))

\* C6: no live thread is blocked for ever: a thread is never left waiting on
\* its condition variable after the only thread that notifies it has left its
\* loop, a state from which join cannot return.
C6_NoThreadBlockedForever ==
    (Alive /\ ValidInput(inp))
        => /\ ~(reader.pc = "waiting" /\ writer.pc = "done")
           /\ ~(worker.pc = "waiting" /\ reader.pc = "done")
           /\ ~(writer.pc = "waiting" /\ worker.pc = "done")

(***************************************************************************)
(* The single-threaded driver run twice (SpecST).                          *)
(***************************************************************************)
\* the precondition of the involution: no malformed sequence, the last line
\* terminated, the chunk size at least the longest line
C4_Pre ==
    /\ ValidUTF8(st.x)
    /\ ~Unterminated(st.x)
    /\ LinesFit(st.x, st.buf_size)

\* a line ended by a bare LF whose content begins with CR
LeadingCR(line) ==
    /\ Terminator(line) = <<LF>>
    /\ Content(line) # <<>>
    /\ Content(line)[1] = CR

\* C4: the second run neither fails nor writes anything but x: feeding the
\* output of the chunked transformer through it again yields the input.
C4_Involution ==
    C4_Pre => /\ st.pc # "failed"
              /\ (st.pass = 2 /\ st.pc = "closed") => st.out = st.x

\* C4 as amended: the same, for the inputs in which no line that ends with a
\* bare LF has a content beginning with CR.
C4_InvolutionNoLeadingCR ==
    (C4_Pre /\ \A k \in 1..Len(Lines(st.x)) : ~LeadingCR(Lines(st.x)[k]))
        => /\ st.pc # "failed"
           /\ (st.pass = 2 /\ st.pc = "closed") => st.out = st.x

\* a second run has given back an input of several chunks that the first run
\* had changed
C4_Witness ==
    /\ st.pass = 2 /\ st.pc = "closed"
    /\ C4_Pre /\ \A k \in 1..Len(Lines(st.x)) : ~LeadingCR(Lines(st.x)[k])
    /\ st.buf_size < Len(st.x)
    /\ st.src # st.x
    /\ st.out = st.x

(***************************************************************************)
(* The queue's contract (SpecQ).                                           *)
(***************************************************************************)
\* C7: the values returned by successful pops are a prefix of the values
\* accepted by successful pushes: same order, no loss, no duplication.
C7_Fifo == IsPrefix(hist.popped, hist.pushed)

\* every value was pushed and popped, the indices having wrapped
C7_Witness ==
    /\ Len(hist.popped) = MaxPush
    /\ hist.popped = [k \in 1..MaxPush |-> k]
    /\ MaxPush >= queue_size

Outstanding == Len(hist.pushed) - Len(hist.popped)

\* C8: (write - read) mod Q is the number of elements pushed and not yet
\* popped, which is at most Q - 1, and both indices are in 0..Q-1.
C8_Occupancy ==
    /\ (hq.write_ - hq.read_ + queue_size) % queue_size = Outstanding
    /\ Outstanding <= queue_size - 1
    /\ hq.write_ \in 0..(queue_size - 1)
    /\ hq.read_ \in 0..(queue_size - 1)

\* the ring is full, Q - 1 elements outstanding, with the write index wrapped
\* below the read index
C8_Witness ==
    /\ Outstanding = queue_size - 1
    /\ hq.write_ < hq.read_

\* what the call observed: the ring was full
C9_SawFull == (prod.e_write + 1) % queue_size = prod.obs

\* C9: push returns false exactly when (write + 1) mod Q is the read index it
\* observed, and then has changed neither the slots nor the write index;
\* otherwise it has stored the item at slot[write] and advanced write by one
\* modulo Q and returns true.  No step of push changes the read index, and the
\* write index advances only once the slot holds the item.
C9_PushContract ==
    /\ [](prod.pc = "ret" =>
            /\ (prod.ret = FALSE) <=> C9_SawFull
            /\ C9_SawFull => /\ hq.queue_ = prod.e_queue
                             /\ hq.write_ = prod.e_write
            /\ ~C9_SawFull =>
                   /\ hq.queue_ = [prod.e_queue EXCEPT ![prod.e_write] = prod.item]
                   /\ hq.write_ = (prod.e_write + 1) % queue_size)
    /\ [][/\ prod' # prod => hq'.read_ = hq.read_
          /\ hq'.write_ # hq.write_ => /\ hq.queue_[hq.write_] = prod.item
                                       /\ hq'.queue_ = hq.queue_]_vars

\* a push has returned false on a full ring whose write index had wrapped, and
\* an earlier push had wrapped the write index to 0
C9_Witness ==
    /\ prod.pc = "ret" /\ prod.ret = FALSE
    /\ C9_SawFull
    /\ prod.e_write < prod.obs
    /\ Len(hist.pushed) >= queue_size

\* what the call observed: the ring was empty
C10_SawEmpty == cons.e_read = cons.obs

\* C10: pop returns false exactly when the read index is the write index it
\* observed, and then has changed neither the output parameter nor the read
\* index; otherwise the output parameter is what it copied from slot[read] and
\* the read index has advanced by one modulo Q, the copy being made before the
\* advance.  No step of pop changes a slot or the write index.
C10_PopContract ==
    /\ [](cons.pc = "ret" =>
            /\ (cons.ret = FALSE) <=> C10_SawEmpty
            /\ C10_SawEmpty => /\ cons.item = cons.e_item
                               /\ hq.read_ = cons.e_read
            /\ ~C10_SawEmpty => hq.read_ = (cons.e_read + 1) % queue_size)
    /\ [][/\ cons' # cons => /\ hq'.queue_ = hq.queue_
                             /\ hq'.write_ = hq.write_
          /\ cons'.item # cons.item => /\ cons'.item = hq.queue_[cons.e_read]
                                       /\ hq'.read_ = cons.e_read
          /\ hq'.read_ # hq.read_ => /\ cons.item = hq.queue_[cons.e_read]
                                     /\ hq'.read_ = (cons.e_read + 1) % queue_size]_vars

\* a pop has returned false on a ring emptied after elements went through it,
\* and the output parameter still holds the element of the pop before
C10_Witness ==
    /\ cons.pc = "ret" /\ cons.ret = FALSE
    /\ C10_SawEmpty
    /\ cons.e_read > 0
    /\ cons.item = Len(hist.popped) /\ cons.item > 0

(***************************************************************************)
(* The contract of reverse_range (SpecRR).                                 *)
(***************************************************************************)
\* the bytes of the range [from, to) before and after the call
RRIn == SubSeq(rcall.buf0, rcall.from + 1, rcall.to)

RROut == [k \in 1..Len(RRIn) |-> rcall.buf[rcall.from + k - 1]]

\* C13: on a range that is a concatenation of well-formed sequences the call
\* returns true and leaves the same sequences in reverse order, each with its
\* bytes in their original order.
C13_ReversesCodePoints ==
    (rcall.pc = "returned" /\ ValidUTF8(RRIn))
        => /\ rcall.ret = TRUE
           /\ RROut = RevCodePoints(RRIn)

\* a four-byte sequence followed by something else was reversed inside a
\* larger buffer
C13_Witness ==
    /\ rcall.pc = "returned" /\ ValidUTF8(RRIn)
    /\ Len(RRIn) > 4 /\ RRIn[1] = 240
    /\ RROut = RevCodePoints(RRIn) /\ RROut # RRIn

\* C14: the call returns false whenever the range is not a concatenation of
\* complete well-formed sequences.
C14_RejectsMalformed ==
    (rcall.pc = "returned" /\ ~ValidUTF8(RRIn)) => rcall.ret = FALSE

\* C15: whether it returns true or false, the call leaves every byte outside
\* [from, to) as it was; when to <= from it changes no byte and returns true.
C15_Frame ==
    rcall.pc = "returned"
        => /\ \A i \in DOMAIN rcall.buf :
                  (i < rcall.from \/ i >= rcall.to) => rcall.buf[i] = rcall.buf0[i + 1]
           /\ rcall.to <= rcall.from
                  => rcall.ret = TRUE /\ rcall.buf = SpanOf(rcall.buf0)

\* a call that returned false after changing bytes of a range with bytes
\* before it and after it
C15_Witness ==
    /\ rcall.pc = "returned" /\ rcall.ret = FALSE
    /\ 0 < rcall.from /\ rcall.from < rcall.to /\ rcall.to < Len(rcall.buf0)
    /\ RROut # RRIn

(***************************************************************************)
(* Ownership of the jobs (Spec).                                           *)
(***************************************************************************)
\* how many of the elements a ring holds, from read_ up to write_, are j
InRing(q, j) ==
    LET n == (q.write_ - q.read_ + q.cap_) % q.cap_
    IN  Cardinality({k \in 0..(n - 1) : q.queue_[(q.read_ + k) % q.cap_] = j})

\* a stage holds the index it popped until its push; the writer keeps the
\* index it left its loop with, the worker the one it threw on
Holds(t, j, pcs) == IF t.pc \in pcs /\ t.job_index = j THEN 1 ELSE 0

PlacesOf(j) ==
    InRing(q_write_read, j) + Holds(reader, j, {"sample", "push"})
    + InRing(q_read_work, j) + Holds(worker, j, {"sample", "push", "threw"})
    + InRing(q_work_write, j) + Holds(writer, j, {"sample", "push", "done"})

\* C11: each of the J job indices is in exactly one of the six places: the
\* write->read queue, the reader, the read->work queue, the worker, the
\* work->write queue, the writer.
C11_JobOwnedOnce == \A j \in DOMAIN job_arr : PlacesOf(j) = 1

\* worker and writer each hold a job, about to push it, after the writer has
\* already given a job back
C11_Witness ==
    /\ worker.pc = "push" /\ writer.pc = "push"
    /\ worker.job_index # writer.job_index
    /\ q_write_read.write_ # InitPush(SPSC_LFQ(queue_size), 0).write_

\* the next step of thread t reads seg_in.len_ of job j (the test that ends
\* the loop, made after the push)
ReadsAfterPush(t, j) == t.pc = "test" /\ t.job_index = j

\* the next step of the consumer of ring q pops job j and works on its
\* segments
AboutToTake(t, q, j) ==
    /\ t.pc = "pop"
    /\ q.read_ # q.write_
    /\ q.queue_[q.read_] = j

\* C12: a stage reads or writes a job's segment fields only inside its
\* ownership window: when it reads a field, the job's index is not in a queue
\* nor with another stage; hence no stage is about to read a field of a job
\* that another stage is about to write.
C12_OwnershipWindow ==
    \A j \in DOMAIN job_arr :
        /\ ReadsAfterPush(reader, j) => PlacesOf(j) = 0
        /\ ReadsAfterPush(worker, j) => PlacesOf(j) = 0
        /\ ~(ReadsAfterPush(reader, j) /\ AboutToTake(worker, q_read_work, j))
        /\ ~(ReadsAfterPush(worker, j) /\ AboutToTake(writer, q_work_write, j))

(***************************************************************************)
(* Lines longer than a buffer, malformed lines, errors (Spec, SpecST).     *)
(***************************************************************************)
\* the lines of s before its first line longer than n bytes
RECURSIVE FittingLines(_, _)
FittingLines(ls, n) ==
    IF ls = <<>> \/ Len(Head(ls)) > n THEN <<>>
    ELSE <<Head(ls)>> \o FittingLines(Tail(ls), n)

ExpectedBeforeLongLine(s) ==
    LET ls == FittingLines(Lines(s), buffer_size)
    IN  Concat([k \in 1..Len(ls) |-> ReversedLine(ls[k])])

\* C16: when a line, terminator included, is longer than buffer_size, the run
\* does not end normally, nothing of that line (nor anything after it) is
\* written, and no carry segment ever holds more than buffer_size bytes.
C16_LongLineRejected ==
    /\ \A j \in DOMAIN job_arr : \A k \in 0..1 : job_arr[j].seg_[k].len_ <= buffer_size
    /\ worker.seg_carry_prev.len_ <= buffer_size
    /\ (ValidUTF8(inp) /\ ~LinesFit(inp, buffer_size))
           => /\ main.pc # "returned"
              /\ Len(out) <= Len(ExpectedBeforeLongLine(inp))

\* reverse_range returns false on the content of the line
RangeFails(line) ==
    ~reverse_range(SpanOf(Content(line)), 0, 0, Len(Content(line))).ok

\* the number of bytes of the lines before the first one it fails on
RECURSIVE LenBeforeFailure(_)
LenBeforeFailure(ls) ==
    IF ls = <<>> \/ RangeFails(Head(ls)) THEN 0
    ELSE Len(Head(ls)) + LenBeforeFailure(Tail(ls))

\* C17: when reverse_range returns false for a line of the input, be it
\* inside a chunk, completed from the carry, or the final unterminated line,
\* the run of st::reverse_segment over the chunks ends in the error and
\* nothing of that line is written.
C17_MalformedIsFatal ==
    (st.pass = 1 /\ LinesFit(st.x, st.buf_size)
     /\ \E k \in 1..Len(Lines(st.x)) : RangeFails(Lines(st.x)[k]))
        => /\ st.pc # "closed"
           /\ Len(st.out) <= LenBeforeFailure(Lines(st.x))

\* an error was raised in a stage thread
StageThrew == reader.pc = "threw" \/ worker.pc = "threw" \/ writer.pc = "threw"

Stopped(t) == t.pc \in {"done", "threw"}

\* C18: when an error is raised in one stage thread the other two threads
\* are made to stop and the orchestrator joins all three before the process
\* ends: the process never ends while a stage is still running or blocked.
C18_ErrorPropagation ==
    StageThrew => /\ main.pc # "terminated"
                  /\ main.pc \in {"close", "returned"}
                        => Stopped(reader) /\ Stopped(worker) /\ Stopped(writer)

\* C19: the worker loop and the writer loop are left only after the job that
\* the zero-byte read filled, never after a job whose read returned n > 0.
C19_EndSentinel ==
    /\ worker.pc = "done" => worker.n_in <= 0
    /\ writer.pc = "done" => writer.n_in <= 0

\* the byte count returned by the read of the job the reader handed off last
ReaderLastN == reader.n_of[reader.job_index]

\* C20: in every interleaving the reader, having handed off a job, leaves its
\* loop exactly when the read for that job returned n <= 0, and when it has
\* left no input remains unread.
C20_ReaderExit ==
    [][/\ (reader.pc = "test" /\ reader'.pc # "test")
            => ((reader'.pc = "done") <=> (ReaderLastN <= 0))
       /\ reader'.pc = "done" => rpos' = Len(inp')]_vars

(***************************************************************************)
(* The segment processor's contract (SpecMT).                              *)
(***************************************************************************)
HasLF(x) == \E i \in 1..Len(x) : x[i] = LF

\* index of the last LF of x, 0 when x has none
LastLF(x) == IF HasLF(x) THEN CHOOSE i \in 1..Len(x) :
                                  x[i] = LF /\ \A k \in (i + 1)..Len(x) : x[k] # LF
             ELSE 0

\* the pending tail followed by the chunk
MTWhole == mtc.carry0 \o mtc.in0

\* the complete lines the call has before it, and what follows the last LF
MTDone == SubSeq(MTWhole, 1, LastLF(MTWhole))

MTRest == SubSeq(MTWhole, LastLF(MTWhole) + 1, Len(MTWhole))

SegBytes(m, sg) == Bytes(m, sg.buff_ + sg.off_, sg.len_)

\* what the job's two segments hold for the writer after the call
MTEmitted == SegBytes(mtc.W.mem, mtc.W.seg_carry) \o SegBytes(mtc.W.mem, mtc.W.seg_in)

\* the line completed from the pending tail fits in a buffer
MTFits == mtc.carry0 = <<>> \/ Len(Lines(MTWhole)[1]) <= buffer_size

MTReturned == mtc.pc # "call"

\* C22: a carry is pending and the chunk holds no LF: the chunk's bytes are
\* appended to the carry, the whole carry is reversed and is the single
\* segment emitted, and the input segment's length is 0 afterwards.
C22_EofCarryPath ==
    (MTReturned /\ mtc.carry0 # <<>> /\ ~HasLF(mtc.in0)
     /\ Len(MTWhole) <= buffer_size /\ ValidUTF8(MTWhole))
        => /\ ~mtc.W.threw
           /\ mtc.W.seg_in.len_ = 0
           /\ SegBytes(mtc.W.mem, mtc.W.seg_carry) = RevCodePoints(MTWhole)

\* the call has complete lines before it and returned normally
MTLinesCase ==
    /\ MTReturned /\ ~mtc.W.threw /\ MTFits
    /\ mtc.carry0 = <<>> \/ HasLF(mtc.in0)

\* C23: every line the call emits ends in the terminator the line had (LF,
\* or CR LF when a CR stood right before the LF), also when the line was
\* completed through the carry and when the CR ended the tail and the LF
\* begins the chunk; a line that is only its terminator is emitted unchanged.
C23_TerminatorsKept ==
    MTLinesCase
        => /\ Len(MTEmitted) = Len(MTDone)
           /\ \A k \in 1..Len(Lines(MTDone)) :
                LET line == Lines(MTDone)[k]
                    emitted == Lines(MTEmitted)[k]
                IN  /\ Len(emitted) = Len(line)
                    /\ IsSuffix(Terminator(line), emitted)
                    /\ Content(line) = <<>> => emitted = line

C23_Witness ==
    /\ MTLinesCase
    /\ mtc.carry0 # <<>> /\ mtc.carry0[Len(mtc.carry0)] = CR
    /\ mtc.in0 # <<>> /\ mtc.in0[1] = LF
    /\ Len(mtc.carry0) > 1
    /\ Len(Lines(MTDone)) > 1

\* C24: a chunk boundary inside a line (also inside a code point): the tail
\* after the chunk's last LF goes to the worker's pending carry unreversed,
\* a pending tail is joined with the chunk's prefix through its first LF,
\* and what is emitted is each whole line with its code points reversed; no
\* error is raised when the lines are well-formed.
C24_BoundaryReassembly ==
    (MTReturned /\ MTFits /\ (mtc.carry0 = <<>> \/ HasLF(mtc.in0))
     /\ \A k \in 1..Len(Lines(MTDone)) : ValidUTF8(Content(Lines(MTDone)[k])))
        => /\ ~mtc.W.threw
           /\ MTEmitted = Expected(MTDone)
           /\ MTRest # <<>> => SegBytes(mtc.W.mem, mtc.W.seg_carry_prev) = MTRest

C24_Witness ==
    /\ MTReturned /\ ~mtc.W.threw /\ MTFits
    /\ mtc.carry0 # <<>> /\ mtc.carry0[Len(mtc.carry0)] = 195
    /\ mtc.in0 # <<>> /\ mtc.in0[1] = 169
    /\ HasLF(mtc.in0) /\ MTRest # <<>>
    /\ ValidUTF8(Content(Lines(MTDone)[1]))
    /\ MTEmitted = Expected(MTDone)

(***************************************************************************)
(* The pipeline's jobs on their way round (Spec).                          *)
(***************************************************************************)
\* the writer pops a job in this step and writes it
WriterTakes == writer.pc = "pop" /\ writer'.pc \in {"sample", "done"}

\* the index at the head of work->write, and the job it names
WriterHead == q_work_write.queue_[q_work_write.read_]

RECURSIVE LenOfFirst(_, _)
LenOfFirst(ls, k) == IF k = 0 THEN 0 ELSE Len(ls[k]) + LenOfFirst(ls, k - 1)

\* the carry segment of job j holds, reversed, the input line that ends
\* right where the job's input segment begins
CarryIsPrecedingLine(j) ==
    LET e == reader.pos_of[j] + job_arr[j].seg_[1].off_
    IN  \E k \in 1..Len(Lines(inp)) :
            /\ LenOfFirst(Lines(inp), k) = e
            /\ SegBytes(mem, job_arr[j].seg_[0]) = ReversedLine(Lines(inp)[k])

\* C25: the writer emits a job's carry segment before its input segment, and
\* a non-empty carry segment reaching the writer holds the reversed bytes of
\* a line that precedes everything in that job's input segment.
C25_CarryFirst ==
    [][WriterTakes =>
          /\ IsPrefix(out \o SegBytes(mem, job_arr[WriterHead].seg_[0]), out')
          /\ (job_arr[WriterHead].seg_[0].len_ > 0 /\ ValidInput(inp))
                => CarryIsPrecedingLine(WriterHead)]_vars

\* C26: the k-th job the worker processes and the k-th job the writer writes
\* hold the chunk of the k-th read.
C26_CrossJobOrder ==
    /\ worker.k_in = worker.k
    /\ writer.k_in = writer.k

C26_Witness ==
    /\ writer.k > NumJobs
    /\ writer.pc = "done" /\ out # <<>>

\* C27: what the writer writes for a job is buffer[off_, off_ + len_) of the
\* carry segment followed by that of the input segment (an empty segment
\* adds nothing), on the gathered and on the single write path alike; a job
\* whose input segment alone is non-empty has input offset 0.
C27_WriterByteRange ==
    mtc.pc = "written"
        => /\ mtc.out = MTEmitted
           /\ (mtc.W.seg_carry.len_ = 0 /\ mtc.W.seg_in.len_ > 0)
                => mtc.W.seg_in.off_ = 0

C27_Witness ==
    /\ mtc.pc = "written"
    /\ mtc.W.seg_carry.len_ > 0
    /\ mtc.W.seg_in.len_ > 0 /\ mtc.W.seg_in.off_ > 0
    /\ MTEmitted # SegBytes(mtc.W.mem, mtc.W.seg_carry)
                       \o Bytes(mtc.W.mem, mtc.W.seg_in.buff_, mtc.W.seg_in.len_)

Clean(sg) == sg.len_ = 0 /\ sg.off_ = 0

\* C28: a job waiting in write->read has a clean input segment, a job handed
\* to the worker has a clean carry segment, and the worker's private carry
\* has offset 0.
C28_RecycledJobsClean ==
    /\ \A j \in DOMAIN job_arr :
          /\ InRing(q_write_read, j) = 1
                => Clean(job_arr[j].seg_[1]) /\ Clean(job_arr[j].seg_[0])
          /\ (InRing(q_read_work, j) = 1 \/ Holds(reader, j, {"sample", "push"}) = 1)
                => Clean(job_arr[j].seg_[0]) /\ job_arr[j].seg_[1].off_ = 0
    /\ worker.seg_carry_prev.off_ = 0

C28_Witness ==
    /\ InRing(q_write_read, writer.job_index) = 1
    /\ writer.k > 0
    /\ writer.wrote.seg_[0].len_ > 0 /\ writer.wrote.seg_[1].off_ > 0

\* C29: every push of the pipeline finds room: the J initial pushes, and
\* the push each stage is about to make.
C29_NoPushFull ==
    /\ (main.pc = "spawn" /\ main.i = 0) => size(q_write_read) = buffer_in_flight \div 2
    /\ reader.pc = "push" => push(q_read_work, reader.job_index).ok
    /\ worker.pc = "push" => push(q_work_write, worker.job_index).ok
    /\ writer.pc = "push" => push(q_write_read, writer.job_index).ok

C29_Witness ==
    /\ reader.pc = "push"
    /\ size(q_read_work) = (buffer_in_flight \div 2) - 1
    /\ reader.k > 1

\* C30: a push that lands in an empty queue is followed by a notify on that
\* queue's condition variable.
C30_NotifyOnFirstItem ==
    [][/\ (reader.pc = "push" /\ reader'.pc # "push" /\ empty(q_read_work))
            => reader'.pc = "notify"
       /\ (worker.pc = "push" /\ worker'.pc # "push" /\ empty(q_work_write))
            => worker'.pc = "notify"
       /\ (writer.pc = "push" /\ writer'.pc # "push" /\ empty(q_write_read))
            => writer'.pc = "notify"]_vars

(***************************************************************************)
(* Read errors (SpecRE).                                                   *)
(***************************************************************************)
InLoop(t) == t.pc \in {"check", "wait_pred", "wait_block", "waiting", "pop"}

\* C21: after a read that returned a negative value the reader hands the job
\* off and leaves its loop, and the worker and the writer take that job as
\* the end sentinel: they leave their loops after it and the value is never
\* used as a number of bytes.
C21_ReadErrorEndsRun ==
    /\ (reader.k > 0 /\ ReaderLastN < 0) => ~InLoop(reader)
    /\ (worker.k > 0 /\ worker.n_in < 0)
          => /\ ~InLoop(worker)
             /\ worker.seg_carry_prev.len_ <= buffer_size
             /\ ~pool_ub
    /\ (writer.k > 0 /\ writer.n_in < 0) => writer.pc \in {"done", "threw"}

(***************************************************************************)
(* Buffers, bounds and exit of the pipeline (Spec).                        *)
(***************************************************************************)
\* C31: every job's carry segment and input segment keep the buffer they were
\* given at construction; only off_ and len_ of a job's segments change.
C31_JobBuffersFixed ==
    \A j \in DOMAIN job_arr : \A i \in {0, 1} :
        job_arr[j].seg_[i].buff_ = InitJobs[j].seg_[i].buff_

\* C33: once the reader, the worker and the writer have all left their loops,
\* the read->work queue and the work->write queue are empty.
C33_QueuesDrainedAtExit ==
    ThreadsDone => empty(q_read_work) /\ empty(q_work_write)

\* C34: the affinity call of iteration i addresses the thread spawned in
\* iteration i, which is started, and never a slot outside the three threads.
C34_PinsOwnThread ==
    main.pc = "affinity"
        => /\ PinSlot(main.i) = main.i
           /\ PinSlot(main.i) < 3
           /\ PinTargetStarted(main.i)

\* a segment lies within its buffer
InBuffer(sg) == sg.off_ + sg.len_ <= buffer_size

MTTailCase ==
    /\ MTReturned /\ ~mtc.W.threw
    /\ mtc.carry0 = <<>> \/ HasLF(mtc.in0)
    /\ MTRest # <<>>

\* C35: a call of mt::reverse_segment neither loses nor invents bytes: the
\* lengths of the job's carry, the job's input and the worker's pending carry
\* after the call add up to the lengths of the pending carry and the input
\* before it; and when no further LF is found the pending carry is exactly
\* the unprocessed tail, at offset 0, and the input segment ends where the
\* tail began.
C35_ByteConservation ==
    /\ (MTReturned /\ ~mtc.W.threw)
          => mtc.W.seg_carry.len_ + mtc.W.seg_in.len_ + mtc.W.seg_carry_prev.len_
                 = Len(mtc.carry0) + Len(mtc.in0)
    /\ MTTailCase
          => /\ mtc.W.seg_carry_prev.off_ = 0
             /\ SegBytes(mtc.W.mem, mtc.W.seg_carry_prev) = MTRest
             /\ mtc.W.seg_in.off_ + mtc.W.seg_in.len_ + Len(MTRest) = Len(mtc.in0)

\* all three segments are non-empty after the call: a carry completed by the
\* chunk's prefix, lines left in the input, and a tail pending
C35_Witness ==
    /\ MTTailCase
    /\ mtc.carry0 # <<>>
    /\ mtc.W.seg_carry.len_ > Len(mtc.carry0)
    /\ mtc.W.seg_in.len_ > 0
    /\ mtc.W.seg_carry_prev.len_ > 0

(***************************************************************************)
(* The buffers of the pool (Spec).                                         *)
(***************************************************************************)
\* the 2J+1 segments: carry and input of every job, the worker's pending carry
PoolSegments ==
    [k \in 0..(buffer_count - 1) |->
        IF k = buffer_count - 1 THEN worker.seg_carry_prev
        ELSE job_arr[k \div 2].seg_[k % 2]]

\* two buffers of buffer_size bytes share no byte
Disjoint(a, b) == a.buff_ + buffer_size <= b.buff_ \/ b.buff_ + buffer_size <= a.buff_

\* the index the worker is about to pop
WorkerHead == q_read_work.queue_[q_read_work.read_]

\* C36: the 2J+1 segments name pairwise different buffers of the pool that do
\* not overlap, so the buffer the worker holds is named by no job; and the
\* carry segment of the job the worker is about to process, the one a swap
\* hands to the worker, is empty (len_ 0, off_ 0).
C36_BuffersDistinct ==
    LET P == PoolSegments
    IN  /\ \A a \in DOMAIN P : \A b \in DOMAIN P : a < b => Disjoint(P[a], P[b])
        /\ \A a \in DOMAIN P : P[a].buff_ >= 0 /\ P[a].buff_ + buffer_size <= total
        /\ worker.pc = "pop" => Clean(job_arr[WorkerHead].seg_[0])

\* after a swap the worker holds a buffer that was a job's at construction,
\* and has copied a tail into it
C36_Witness ==
    /\ worker.k > 1
    /\ worker.seg_carry_prev.len_ > 0
    /\ worker.seg_carry_prev.buff_ # seg_carry_unique.buff_

(***************************************************************************)
(* The slots of the ring under interleaved push and pop (SpecQ).           *)
(***************************************************************************)
\* the slot that holds the k-th element pushed
SlotOf(k) == (k - 1) % hq.cap_

\* the elements pushed and not yet popped, by their number in hist.pushed
Unpopped == (Len(hist.popped) + 1)..Len(hist.pushed)

\* C37: with every load and store of push and pop a step of its own, a pop
\* that is about to read a slot reads the slot of the oldest element not yet
\* popped, whose payload store and index store are complete, and a push that
\* is about to store into a slot stores into none that holds an element
\* pushed and not yet popped.
C37_SlotSafety ==
    /\ cons.pc = "load_slot"
          => /\ Unpopped # {}
             /\ cons.read = SlotOf(Len(hist.popped) + 1)
             /\ hq.queue_[cons.read] = hist.pushed[Len(hist.popped) + 1]
             /\ ~(prod.pc = "store_slot" /\ prod.write = cons.read)
    /\ prod.pc = "store_slot"
          => \A k \in Unpopped : SlotOf(k) # prod.write

\* the pop reads a slot while the push stores into another one, the ring
\* having wrapped and holding elements in between
C37_Witness ==
    /\ cons.pc = "load_slot" /\ prod.pc = "store_slot"
    /\ Len(hist.pushed) > hq.cap_
    /\ Cardinality(Unpopped) > 1

(***************************************************************************)
(* Wakeups and the pop after the wait (Spec).                              *)
(***************************************************************************)
\* C38: no wakeup is lost: a consumer is never blocked on the condition
\* variable of its input queue while that queue holds an index, unless the
\* producer of that queue is about to notify.
C38_NoLostWakeup ==
    /\ (reader.pc = "waiting" /\ ~empty(q_write_read)) => writer.pc = "notify"
    /\ (worker.pc = "waiting" /\ ~empty(q_read_work)) => reader.pc = "notify"
    /\ (writer.pc = "waiting" /\ ~empty(q_work_write)) => worker.pc = "notify"

\* C39: the pop that follows the empty() test and the wait always succeeds:
\* whenever the reader, the worker or the writer is about to pop, the queue
\* it pops from holds an index, so 'Pop Returned False' is never thrown.
C39_PopSucceeds ==
    /\ reader.pc = "pop" => pop(q_write_read, reader.job_index).ok
    /\ worker.pc = "pop" => pop(q_read_work, worker.job_index).ok
    /\ writer.pc = "pop" => pop(q_work_write, writer.job_index).ok

\* the worker and the writer are about to pop, each the only index in its
\* queue, while the reader waits for a job to come back
C39_Witness ==
    /\ worker.pc = "pop" /\ size(q_read_work) = 1
    /\ writer.pc = "pop" /\ size(q_work_write) = 1
    /\ reader.pc = "waiting"

(***************************************************************************)
(* The two segment processors side by side (SpecMT).                       *)
(***************************************************************************)
\* st::reverse_segment called on the chunk and the pending carry the call of
\* mt::reverse_segment started from
MTAsST ==
    st_reverse_segment(
        [mem |-> MTStart(mtc.carry0, mtc.in0).W.mem,
         seg_recent |-> Segment(stride, Len(mtc.in0), 0),
         carry |-> Segment(2 * stride, Len(mtc.carry0), 0),
         carry_backup |-> Segment(0, 0, 0),
         item_to_write |-> EmptyJob,
         threw |-> FALSE, oob |-> FALSE])

\* C40: from the same pending carry and the same chunk, lines fitting in a
\* buffer, the bytes mt::reverse_segment leaves in the job for emission
\* (carry, then input) are the bytes of the segments st::reverse_segment
\* returns, and both hold the same pending carry afterwards.
C40_SameAsSingleThreaded ==
    (MTReturned /\ LinesFit(MTWhole, buffer_size)
     /\ ~mtc.W.threw /\ ~MTAsST.threw)
        => /\ MTEmitted = STEmit(<<>>, MTAsST.mem, MTAsST.item_to_write)
           /\ SegBytes(mtc.W.mem, mtc.W.seg_carry_prev)
                  = SegBytes(MTAsST.mem, MTAsST.carry)

====
